---------------------------- MODULE Spec2Model ----------------------------
(* Model of the workshop notebooks of Quantum_Workshop.                    *)
(*   CUDA_Quantum/task/cudaq_tutorial_04.ipynb : the multi-GPU notebook,   *)
(*     its namespace, its code cells and the futures of observe_async.     *)
(*   cuQuantum/task/Lab2 - PennyLane and cuQuantum.ipynb : the variational *)
(*     classifier (square_loss, accuracy, cost, the training loop).        *)
(* Sizes are scaled down (see the bounds); the shapes and the order of the *)
(* statements are those of the notebooks.                                  *)
EXTENDS Integers, Sequences, FiniteSets, TLC

VARIABLES
  \* --- cudaq_tutorial_04.ipynb: execution position
  cell,          \* the code cell a top-to-bottom run executes next (1..11, 12 = past the end)
  pc,            \* position inside a multi-step cell
  status,        \* "ok", or "raised" once an exception left a cell
  raisedAt,      \* the call that raised: "none", "observe", "observe_async", "get", ...
  \* --- cudaq_tutorial_04.ipynb: the notebook's namespace
  target, n_qubits, n_samples, n_parameters, parameters, h, hamiltonian,
  kernel, kernel1, kernel2, exp_vals, xi, asyncresults, expvals,
  exp_vals1, exp_vals2, i, j, rng,
  \* --- the runtime's jobs (one per observe_async call) and what was called
  jobs,          \* sequence of job records; a future is an index into it
  acc_list,      \* the list a comprehension is building
  pos,           \* position of "for res in asyncresults"
  calls,         \* every observe / observe_async call made: kernel arity and argument length
  getLog,        \* futures on which get() was called by the running cell, in order
  gen,           \* per parameter-generating cell: <<generator state before, values>> of each run
  \* --- Lab2 - PennyLane and cuQuantum.ipynb: execution position and namespace
  lab_cell, lab_pc, lab_status, lab_rng,
  weights, X, Y, weights_init, bias_init, bias, batch_size, batch_index,
  predictions, acc, data, it, cost,
  outputs,       \* what variational_classifier returns for each sample at the current weights
  \* --- a call of square_loss on its own: the arguments and what the call gave
  arg_labels, arg_predictions, loss

vars == <<cell, pc, status, raisedAt, target, n_qubits, n_samples, n_parameters, parameters,
          h, hamiltonian, kernel, kernel1, kernel2, exp_vals, xi, asyncresults,
          expvals, exp_vals1, exp_vals2, i, j, rng, jobs, acc_list, pos, calls,
          getLog, gen, lab_cell, lab_pc, lab_status, lab_rng, weights, X, Y, weights_init,
          bias_init, bias, batch_size, batch_index, predictions, acc, data, it, cost,
          outputs, arg_labels, arg_predictions, loss>>

callVars == <<arg_labels, arg_predictions, loss>>

labVars == <<lab_cell, lab_pc, lab_status, lab_rng, weights, X, Y, weights_init, bias_init,
             bias, batch_size, batch_index, predictions, acc, data, it, cost, outputs,
             arg_labels, arg_predictions, loss>>

----------------------------------------------------------------------------
(* Bounds: the notebook's sizes, scaled down.                              *)

\* rows of one batch of np.split(parameters, 4): 250 in the notebook (n_samples = 1000)
BatchRows == 2
\* n_samples of the "different kernels" cell: 500 in the notebook
SmallSamples == 2
\* n_qubits of the first kernel cell: 20 in the notebook
QubitsFirst == 2
\* n_qubits of the later kernel cells: 10 in the notebook
QubitsLater == 1

\* np.split(parameters, 4)
Sections == 4
\* np.random.default_rng(13)
ParamSeed == 13
\* np.random.seed(1)
GlobalSeed == 1

----------------------------------------------------------------------------
(* numpy's generators: a full-period additive generator stands for the    *)
(* bit generator; what matters is that a generator's draws are a function  *)
(* of its seed and of the number of draws made before.                     *)

RngMod == 2 ^ 5
RngStride == 2 ^ 3 - 1
RngStates == 0 .. RngMod - 1

SeedState(seed) == seed % RngMod

\* the state of a generator in state s after n draws
RngAdvance(s, n) == (s + n * RngStride) % RngMod

\* the n-th draw (n >= 1) of a generator in state s
Draw(s, n) == RngAdvance(s, n)

\* generator.uniform(low=0, high=1, size=(rows, cols)): row-major draws
\* the draws taken from the global generator in place of the seeded one
UniformGlobal(s, rows, cols) ==
  [r \in 1 .. rows |-> [c \in 1 .. cols |-> Draw(rng, (r - 1) * cols + c)]]

Uniform(s, rows, cols) ==
  [r \in 1 .. rows |-> [c \in 1 .. cols |-> Draw(s, (r - 1) * cols + c)]]

----------------------------------------------------------------------------
(* Kernels: cudaq.make_kernel(list) followed by the gate loops. A kernel   *)
(* is known by the indices of params[...] its gates read.                  *)

NoKernel == [nq |-> 0, reads |-> {}]

\* rx(params[i]), ry(params[i + n_qubits]), rz(params[i + n_qubits*2]) for i in range(n_qubits)
RotationKernel(nq) ==
  [nq |-> nq,
   reads |-> {q : q \in 0 .. nq - 1} \cup {q + nq : q \in 0 .. nq - 1}
             \cup {q + nq * 2 : q \in 0 .. nq - 1}]

\* rx(params[i]) for i in range(n_qubits)
RxKernel(nq) == [nq |-> nq, reads |-> {q : q \in 0 .. nq - 1}]

\* the parameter count of a kernel: the number of distinct params[...] indices it reads
ParamCount(k) == Cardinality(k.reads)

\* the expectation value the simulator returns for one call: a function of the call
Expectation(k, obs, args) == [kernel |-> k, h |-> obs, x |-> args]

----------------------------------------------------------------------------
(* np.split(ary, sections): equal division along the rows, or ValueError.  *)

Rows(a) == Len(a)

SplitOk(ary, sections) == Rows(ary) % sections = 0

\* every section but the last takes one row too many (an inclusive end index)
SplitOverlap(ary, sections) ==
  LET each == Rows(ary) \div sections
      end(s) == IF s * each + 1 <= Rows(ary) THEN s * each + 1 ELSE Rows(ary)
  IN  [s \in 1 .. sections |-> SubSeq(ary, (s - 1) * each + 1, end(s))]

Split(ary, sections) ==
  LET each == Rows(ary) \div sections
  IN  [s \in 1 .. sections |-> SubSeq(ary, (s - 1) * each + 1, s * each)]

RECURSIVE Concatenate(_)
Concatenate(parts) ==
  IF parts = <<>> THEN <<>> ELSE Head(parts) \o Concatenate(Tail(parts))

----------------------------------------------------------------------------
(* The cells that draw parameters from a seeded generator: cells 2, 5 and  *)
(* 6 of cudaq_tutorial_04.ipynb, code cell 16 of the Lab2 notebook.        *)

GenCells == {2, 5, 6, 16}

\* the Lab2 notebook before any of its cells has run; numpy's global generator
\* starts from operating-system entropy: any state of S
LabFresh(S) ==
  /\ lab_cell = 1 /\ lab_pc = "idle" /\ lab_status = "ok"
  /\ lab_rng \in S
  /\ weights = <<>> /\ X = <<>> /\ Y = <<>>
  /\ weights_init = <<>> /\ bias_init = 0 /\ bias = 0
  /\ batch_size = 0 /\ batch_index = <<>>
  /\ predictions = <<>> /\ acc = <<>> /\ data = <<>> /\ it = 0
  /\ cost = "function" /\ outputs = <<>>

\* square_loss has not been called on its own
NotCalled == [state |-> "none", num |-> 0, den |-> 0]
NoCall == arg_labels = <<>> /\ arg_predictions = <<>> /\ loss = NotCalled

----------------------------------------------------------------------------
(* Initial state: a fresh kernel; nothing is defined. numpy's global       *)
(* generator starts from operating-system entropy: any state of S.         *)

CudaqFresh(S) ==
  /\ cell = 1 /\ pc = "idle" /\ status = "ok" /\ raisedAt = "none"
  /\ target = "default"
  /\ n_qubits = 0 /\ n_samples = 0 /\ n_parameters = 0
  /\ parameters = <<>> /\ h = "undefined" /\ hamiltonian = FALSE
  /\ kernel = NoKernel /\ kernel1 = NoKernel /\ kernel2 = NoKernel
  /\ exp_vals = <<>> /\ xi = <<>> /\ asyncresults = <<>> /\ expvals = <<>>
  /\ exp_vals1 = <<>> /\ exp_vals2 = <<>>
  /\ i = 0 /\ j = 0
  /\ rng \in S
  /\ jobs = <<>> /\ acc_list = <<>> /\ pos = 0 /\ calls = {} /\ getLog = <<>>

\* cudaq_tutorial_04.ipynb is opened and run; the Lab2 notebook is not. The run
\* never draws from the global generator (it only seeds it), so one starting state
\* of it is taken here; InitRerun starts it anywhere.
Init ==
  /\ CudaqFresh({0})
  /\ LabFresh({0})
  /\ NoCall
  /\ gen = [c \in GenCells |-> {}]

----------------------------------------------------------------------------
(* The code cells of cudaq_tutorial_04.ipynb. A cell body says what the    *)
(* cell does to the namespace; RunAll sequences the bodies top to bottom   *)
(* and stops at the first exception, as "Run All" does.                    *)

nsVars == <<target, n_qubits, n_samples, n_parameters, parameters, h, hamiltonian,
            kernel, kernel1, kernel2, exp_vals, xi, asyncresults, expvals,
            exp_vals1, exp_vals2, i, j, rng>>

\* a top-to-bottom run is about to execute cell c
At(c) == cell = c /\ pc = "idle" /\ status = "ok"

\* after a single-step cell c: on to the next cell, unless it raised
Advance(c) ==
  /\ cell' = IF status' = "ok" THEN c + 1 ELSE c
  /\ pc' = "idle"

\* cell 1: import cudaq ...; cudaq.set_target('nvidia')
Cell1Body ==
  /\ target' = "nvidia"
  /\ status' = "ok" /\ raisedAt' = "none"
  /\ UNCHANGED <<n_qubits, n_samples, n_parameters, parameters, h, hamiltonian,
                 kernel, kernel1, kernel2, exp_vals, xi, asyncresults, expvals,
                 exp_vals1, exp_vals2, i, j, rng, jobs, acc_list, pos, calls,
                 getLog, gen>>
  /\ UNCHANGED labVars

\* cell 2: n_qubits = 20 ... exp_vals = [cudaq.observe(kernel, h, parameters[i]) ...]
Cell2Body ==
  /\ n_qubits' = QubitsFirst
  /\ n_samples' = Sections * BatchRows
  /\ h' = "z0"
  /\ n_parameters' = n_qubits' * 3
  /\ parameters' = Uniform(SeedState(ParamSeed), n_samples', n_parameters')
  /\ rng' = SeedState(GlobalSeed)
  /\ kernel' = RotationKernel(n_qubits')
  /\ calls' = calls \cup
       {[cell |-> 2, arity |-> ParamCount(kernel'), arglen |-> Len(parameters'[r])] :
          r \in 1 .. n_samples'}
  /\ \E raised \in BOOLEAN :
       IF raised
       THEN status' = "raised" /\ raisedAt' = "observe" /\ UNCHANGED exp_vals
       ELSE /\ status' = "ok" /\ raisedAt' = "none"
            /\ exp_vals' = [r \in 1 .. n_samples' |->
                              Expectation(kernel', h', parameters'[r])]
  /\ gen' = [gen EXCEPT ![2] = @ \cup {<<rng, parameters'>>}]
  /\ UNCHANGED <<target, hamiltonian, kernel1, kernel2, xi, asyncresults, expvals,
                 exp_vals1, exp_vals2, i, j, jobs, acc_list, pos, getLog>>
  /\ UNCHANGED labVars

\* cell 3: xi = np.split(parameters, 4)
Cell3Body ==
  /\ IF SplitOk(parameters, Sections)
     THEN xi' = Split(parameters, Sections) /\ status' = "ok" /\ raisedAt' = "none"
     ELSE UNCHANGED xi /\ status' = "raised" /\ raisedAt' = "split"
  /\ UNCHANGED <<target, n_qubits, n_samples, n_parameters, parameters, h,
                 hamiltonian, kernel, kernel1, kernel2, exp_vals, asyncresults,
                 expvals, exp_vals1, exp_vals2, i, j, rng, jobs, acc_list, pos,
                 calls, getLog, gen>>
  /\ UNCHANGED labVars

\* cell 5: n_qubits = 10 ... hamiltonian = ...; parameters and kernel rebuilt
Cell5Body ==
  /\ n_qubits' = QubitsLater
  /\ n_samples' = Sections * BatchRows
  /\ hamiltonian' = TRUE
  /\ n_parameters' = n_qubits' * 3
  /\ parameters' = Uniform(SeedState(ParamSeed), n_samples', n_parameters')
  /\ rng' = SeedState(GlobalSeed)
  /\ kernel' = RotationKernel(n_qubits')
  /\ status' = "ok" /\ raisedAt' = "none"
  /\ gen' = [gen EXCEPT ![5] = @ \cup {<<rng, parameters'>>}]
  /\ UNCHANGED <<target, h, kernel1, kernel2, exp_vals, xi, asyncresults, expvals,
                 exp_vals1, exp_vals2, i, j, jobs, acc_list, pos, calls, getLog>>
  /\ UNCHANGED labVars

\* cell 6: cudaq.set_target('nvidia-mgpu'); n_samples = 500; kernel1, kernel2
Cell6Body ==
  /\ target' = "nvidia-mgpu"
  /\ n_qubits' = QubitsLater
  /\ n_samples' = SmallSamples
  /\ h' = "z0"
  /\ n_parameters' = n_qubits'
  /\ parameters' = Uniform(SeedState(ParamSeed), n_samples', n_parameters')
  /\ rng' = SeedState(GlobalSeed)
  /\ kernel1' = RxKernel(n_qubits')
  /\ kernel2' = RxKernel(n_qubits')
  /\ status' = "ok" /\ raisedAt' = "none"
  /\ gen' = [gen EXCEPT ![6] = @ \cup {<<rng, parameters'>>}]
  /\ UNCHANGED <<hamiltonian, kernel, exp_vals, xi, asyncresults, expvals,
                 exp_vals1, exp_vals2, i, j, jobs, acc_list, pos, calls, getLog>>
  /\ UNCHANGED labVars

\* cell 9: dir(cudaq)
Cell9Body ==
  /\ status' = "ok" /\ raisedAt' = "none"
  /\ UNCHANGED <<nsVars, jobs, acc_list, pos, calls, getLog, gen>>
  /\ UNCHANGED labVars

\* cell 10: cudaq.set_target('tensornet')
Cell10Body ==
  /\ target' = "tensornet"
  /\ status' = "ok" /\ raisedAt' = "none"
  /\ UNCHANGED <<n_qubits, n_samples, n_parameters, parameters, h, hamiltonian,
                 kernel, kernel1, kernel2, exp_vals, xi, asyncresults, expvals,
                 exp_vals1, exp_vals2, i, j, rng, jobs, acc_list, pos, calls,
                 getLog, gen>>
  /\ UNCHANGED labVars

\* cell 11: cudaq.sample_n_async(kernel, h, x_train, params, ...): x_train is not
\* defined anywhere in the notebook, so evaluating the arguments raises NameError
Cell11Body ==
  /\ status' = "raised" /\ raisedAt' = "name"
  /\ UNCHANGED <<nsVars, jobs, acc_list, pos, calls, getLog, gen>>
  /\ UNCHANGED labVars

RunCell1 == At(1) /\ Cell1Body /\ Advance(1)
RunCell2 == At(2) /\ Cell2Body /\ Advance(2)
RunCell3 == At(3) /\ Cell3Body /\ Advance(3)
RunCell5 == At(5) /\ Cell5Body /\ Advance(5)
RunCell6 == At(6) /\ Cell6Body /\ Advance(6)
RunCell9 == At(9) /\ Cell9Body /\ Advance(9)
RunCell10 == At(10) /\ Cell10Body /\ Advance(10)
RunCell11 == At(11) /\ Cell11Body /\ Advance(11)

----------------------------------------------------------------------------
(* Cells 4 and 7: the dispatch-and-collect cells (identical text).         *)
(*   asyncresults = []                                                     *)
(*   for i in range(len(xi)):                                              *)
(*       for j in range(xi[i].shape[0]):                                   *)
(*           asyncresults.append(cudaq.observe_async(kernel, h,            *)
(*                                   xi[i][j,:], qpu_id = i))              *)
(*   expvals = []                                                          *)
(*   for res in asyncresults:                                              *)
(*       expvals.append(res.get().expectation_z())                        *)
(* i and j are the loops' cursors (0-based, as in the notebook); a future  *)
(* is the index of its job in jobs.                                        *)

DispatchCells == {4, 7}

\* qpu_id = j in place of qpu_id = i
DeviceForRow(batch, row) == row

\* qpu_id = i
DeviceFor(batch, row) == batch

\* the futures visited last to first
FutureAtReversed(results, p) == results[Len(results) - p]

\* for res in asyncresults: the future the loop visits at position p (0-based)
FutureAt(results, p) == results[p + 1]

\* res.get().expectation_z() of a completed job
ExpectationZ(job) == Expectation(job.kernel, job.h, job.args)

\* the record of one cudaq.observe_async(k, obs, args, qpu_id = q) call
NewJob(c, k, obs, args, q, batch, row) ==
  [cell |-> c, kernel |-> k, h |-> obs, args |-> args, qpu |-> q,
   batch |-> batch, row |-> row, done |-> FALSE]

CallOf(c, k, args) == [cell |-> c, arity |-> ParamCount(k), arglen |-> Len(args)]

\* asyncresults = []
DispatchStart ==
  /\ cell \in DispatchCells /\ pc = "idle" /\ status = "ok"
  /\ asyncresults' = <<>>
  /\ i' = 0 /\ j' = 0
  /\ getLog' = <<>>
  /\ pc' = "submit"
  /\ UNCHANGED <<cell, status, raisedAt, target, n_qubits, n_samples, n_parameters,
                 parameters, h, hamiltonian, kernel, kernel1, kernel2, exp_vals, xi,
                 expvals, exp_vals1, exp_vals2, rng, jobs, acc_list, pos, calls, gen>>
  /\ UNCHANGED labVars

\* a submission that blocks on its own future at once: observe_async(...).get()
SubmitStepEager ==
  /\ pc = "submit" /\ i < Len(xi) /\ j < Rows(xi[i + 1])
  /\ calls' = calls \cup {CallOf(cell, kernel, xi[i + 1][j + 1])}
  /\ \E raised \in BOOLEAN :
       IF raised
       THEN /\ status' = "raised" /\ raisedAt' = "observe_async" /\ pc' = "idle"
            /\ UNCHANGED <<jobs, asyncresults, j, getLog>>
       ELSE /\ jobs' = Append(jobs, [NewJob(cell, kernel, h, xi[i + 1][j + 1],
                                            DeviceFor(i, j), i, j) EXCEPT !.done = TRUE])
            /\ asyncresults' = Append(asyncresults, Len(jobs) + 1)
            /\ getLog' = Append(getLog, Len(jobs) + 1)
            /\ j' = j + 1
            /\ UNCHANGED <<status, raisedAt, pc>>
  /\ UNCHANGED <<cell, target, n_qubits, n_samples, n_parameters, parameters, h,
                 hamiltonian, kernel, kernel1, kernel2, exp_vals, xi, expvals,
                 exp_vals1, exp_vals2, i, rng, acc_list, pos, gen>>
  /\ UNCHANGED labVars

\* asyncresults.append(cudaq.observe_async(kernel, h, xi[i][j,:], qpu_id = i))
SubmitStep ==
  /\ pc = "submit" /\ i < Len(xi) /\ j < Rows(xi[i + 1])
  /\ calls' = calls \cup {CallOf(cell, kernel, xi[i + 1][j + 1])}
  /\ \E raised \in BOOLEAN :
       IF raised
       THEN /\ status' = "raised" /\ raisedAt' = "observe_async" /\ pc' = "idle"
            /\ UNCHANGED <<jobs, asyncresults, j>>
       ELSE /\ jobs' = Append(jobs, NewJob(cell, kernel, h, xi[i + 1][j + 1],
                                           DeviceFor(i, j), i, j))
            /\ asyncresults' = Append(asyncresults, Len(jobs) + 1)
            /\ j' = j + 1
            /\ UNCHANGED <<status, raisedAt, pc>>
  /\ UNCHANGED <<cell, target, n_qubits, n_samples, n_parameters, parameters, h,
                 hamiltonian, kernel, kernel1, kernel2, exp_vals, xi, expvals,
                 exp_vals1, exp_vals2, i, rng, acc_list, pos, getLog, gen>>
  /\ UNCHANGED labVars

\* the inner loop is exhausted: next i
InnerDone ==
  /\ pc = "submit" /\ i < Len(xi) /\ j = Rows(xi[i + 1])
  /\ i' = i + 1 /\ j' = 0
  /\ UNCHANGED <<cell, pc, status, raisedAt, target, n_qubits, n_samples,
                 n_parameters, parameters, h, hamiltonian, kernel, kernel1, kernel2,
                 exp_vals, xi, asyncresults, expvals, exp_vals1, exp_vals2, rng,
                 jobs, acc_list, pos, calls, getLog, gen>>
  /\ UNCHANGED labVars

\* the collect phase without "expvals = []"
OuterDoneNoReset ==
  /\ pc = "submit" /\ i = Len(xi)
  /\ pos' = 0
  /\ pc' = "collect"
  /\ UNCHANGED <<cell, status, raisedAt, target, n_qubits, n_samples, n_parameters,
                 parameters, h, hamiltonian, kernel, kernel1, kernel2, exp_vals, xi,
                 asyncresults, expvals, exp_vals1, exp_vals2, i, j, rng, jobs,
                 acc_list, calls, getLog, gen>>
  /\ UNCHANGED labVars

\* the outer loop is exhausted: expvals = []
OuterDone ==
  /\ pc = "submit" /\ i = Len(xi)
  /\ expvals' = <<>>
  /\ pos' = 0
  /\ pc' = "collect"
  /\ UNCHANGED <<cell, status, raisedAt, target, n_qubits, n_samples, n_parameters,
                 parameters, h, hamiltonian, kernel, kernel1, kernel2, exp_vals, xi,
                 asyncresults, exp_vals1, exp_vals2, i, j, rng, jobs, acc_list,
                 calls, getLog, gen>>
  /\ UNCHANGED labVars

\* a collect loop that catches the exception of get() and calls get() again
CollectStepRetry ==
  /\ pc = "collect" /\ pos < Len(asyncresults)
  /\ jobs[FutureAt(asyncresults, pos)].done
  /\ getLog' = Append(getLog, FutureAt(asyncresults, pos))
  /\ \E raised \in BOOLEAN :
       IF raised
       THEN UNCHANGED <<expvals, pos>>
       ELSE /\ expvals' = Append(expvals, ExpectationZ(jobs[FutureAt(asyncresults, pos)]))
            /\ pos' = pos + 1
  /\ UNCHANGED <<status, raisedAt, pc>>
  /\ UNCHANGED <<cell, target, n_qubits, n_samples, n_parameters, parameters, h,
                 hamiltonian, kernel, kernel1, kernel2, exp_vals, xi, asyncresults,
                 exp_vals1, exp_vals2, i, j, rng, jobs, acc_list, calls, gen>>
  /\ UNCHANGED labVars

\* expvals.append(res.get().expectation_z()): get() blocks until the job is done
CollectStep ==
  /\ pc = "collect" /\ pos < Len(asyncresults)
  /\ jobs[FutureAt(asyncresults, pos)].done
  /\ getLog' = Append(getLog, FutureAt(asyncresults, pos))
  /\ \E raised \in BOOLEAN :
       IF raised
       THEN /\ status' = "raised" /\ raisedAt' = "get" /\ pc' = "idle"
            /\ UNCHANGED <<expvals, pos>>
       ELSE /\ expvals' = Append(expvals, ExpectationZ(jobs[FutureAt(asyncresults, pos)]))
            /\ pos' = pos + 1
            /\ UNCHANGED <<status, raisedAt, pc>>
  /\ UNCHANGED <<cell, target, n_qubits, n_samples, n_parameters, parameters, h,
                 hamiltonian, kernel, kernel1, kernel2, exp_vals, xi, asyncresults,
                 exp_vals1, exp_vals2, i, j, rng, jobs, acc_list, calls, gen>>
  /\ UNCHANGED labVars

\* the collect loop is exhausted: the cell is finished
CollectDone ==
  /\ pc = "collect" /\ pos = Len(asyncresults)
  /\ pc' = "idle"
  /\ cell' = cell + 1
  /\ UNCHANGED <<status, raisedAt, nsVars, jobs, acc_list, pos, calls, getLog, gen>>
  /\ UNCHANGED labVars

----------------------------------------------------------------------------
(* Cell 8:                                                                 *)
(*   exp_vals1 = [cudaq.observe_async(kernel1, h, parameters[i], qpu_id=0) *)
(*                for i in range(parameters.shape[0])]                     *)
(*   exp_vals2 = [... kernel2 ... qpu_id = 1 ...]                          *)
(* The futures are stored; the cell calls get() on none of them.           *)

Cell8Start ==
  /\ At(8)
  /\ acc_list' = <<>>
  /\ pc' = "list1"
  /\ UNCHANGED <<cell, status, raisedAt, nsVars, jobs, pos, calls, getLog, gen>>
  /\ UNCHANGED labVars

Cell8Submit ==
  /\ pc \in {"list1", "list2"} /\ Len(acc_list) < Rows(parameters)
  /\ LET k == IF pc = "list1" THEN kernel1 ELSE kernel2
         q == IF pc = "list1" THEN 0 ELSE 1
         r == Len(acc_list)
     IN  /\ calls' = calls \cup {CallOf(cell, k, parameters[r + 1])}
         /\ \E raised \in BOOLEAN :
              IF raised
              THEN /\ status' = "raised" /\ raisedAt' = "observe_async" /\ pc' = "idle"
                   /\ UNCHANGED <<jobs, acc_list>>
              ELSE /\ jobs' = Append(jobs, NewJob(cell, k, h, parameters[r + 1], q, q, r))
                   /\ acc_list' = Append(acc_list, Len(jobs) + 1)
                   /\ UNCHANGED <<status, raisedAt, pc>>
  /\ UNCHANGED <<cell, nsVars, pos, getLog, gen>>
  /\ UNCHANGED labVars

Cell8ListDone ==
  /\ pc \in {"list1", "list2"} /\ Len(acc_list) = Rows(parameters)
  /\ IF pc = "list1"
     THEN /\ exp_vals1' = acc_list /\ acc_list' = <<>> /\ pc' = "list2"
          /\ UNCHANGED <<cell, exp_vals2>>
     ELSE /\ exp_vals2' = acc_list /\ pc' = "idle" /\ cell' = cell + 1
          /\ UNCHANGED <<acc_list, exp_vals1>>
  /\ UNCHANGED <<status, raisedAt, target, n_qubits, n_samples, n_parameters,
                 parameters, h, hamiltonian, kernel, kernel1, kernel2, exp_vals, xi,
                 asyncresults, expvals, i, j, rng, jobs, pos, calls, getLog, gen>>
  /\ UNCHANGED labVars

----------------------------------------------------------------------------
(* The devices: a submitted job completes at some later time, in any order *)

JobDone ==
  \E id \in 1 .. Len(jobs) :
    /\ ~jobs[id].done
    /\ jobs' = [jobs EXCEPT ![id].done = TRUE]
    /\ UNCHANGED <<cell, pc, status, raisedAt, nsVars, acc_list, pos, calls, getLog, gen>>
    /\ UNCHANGED labVars

Next ==
  \/ RunCell1 \/ RunCell2 \/ RunCell3
  \/ DispatchStart \/ SubmitStep \/ InnerDone \/ OuterDone \/ CollectStep \/ CollectDone
  \/ RunCell5 \/ RunCell6
  \/ Cell8Start \/ Cell8Submit \/ Cell8ListDone
  \/ RunCell9 \/ RunCell10 \/ RunCell11
  \/ JobDone

\* a top-to-bottom run of cudaq_tutorial_04.ipynb
Spec == Init /\ [][Next]_vars

----------------------------------------------------------------------------
(* Properties of the top-to-bottom run.                                    *)

TotalRows(batches) == Len(Concatenate(batches))

\* the jobs cell c submitted, in submission order
SubmittedBy(c) ==
  LET idx == {k \in 1 .. Len(jobs) : jobs[k].cell = c}
      nth(n) == CHOOSE k \in idx : Cardinality({m \in idx : m < k}) = n - 1
  IN  [n \in 1 .. Cardinality(idx) |-> jobs[nth(n)]]

\* the last dispatch-and-collect cell that ran to its end (0: none yet)
FinishedDispatch ==
  IF cell >= 8 THEN 7
  ELSE IF cell \in {5, 6} \/ (cell = 7 /\ pc = "idle" /\ status = "ok") THEN 4
  ELSE 0

\* the dispatch cell whose collect loop wrote the current expvals (0: none)
CollectedFor ==
  IF pc = "collect" \/ (status = "raised" /\ raisedAt = "get") THEN cell
  ELSE FinishedDispatch

\* C2: when a dispatch-and-collect cell has finished, expvals holds as many values
\* as the cell submitted jobs (len(asyncresults)), the total number of rows of xi.
C2_CollectedCount ==
  FinishedDispatch # 0 =>
     /\ Len(expvals) = Len(asyncresults)
     /\ Len(asyncresults) = Len(SubmittedBy(FinishedDispatch))
     /\ Len(asyncresults) = TotalRows(xi)

\* the second dispatch cell has finished, with all its values
C2_Witness ==
  cell = 8 /\ pc = "idle" /\ FinishedDispatch = 7 /\ Len(expvals) = Sections * BatchRows

\* C3: the k-th value of expvals is the result of the k-th job the cell submitted,
\* whatever the order in which the devices completed the jobs.
C3_SubmissionOrder ==
  CollectedFor # 0 =>
     /\ Len(expvals) <= Len(SubmittedBy(CollectedFor))
     /\ \A k \in 1 .. Len(expvals) :
          expvals[k] = ExpectationZ(SubmittedBy(CollectedFor)[k])

\* values were collected while a later job was done before an earlier one
C3_Witness ==
  /\ pc = "collect" /\ Len(expvals) >= 2
  /\ \E a, b \in 1 .. Len(jobs) :
       /\ a < b /\ jobs[a].cell = cell /\ jobs[b].cell = cell
       /\ ~jobs[a].done /\ jobs[b].done

\* C4 (as claimed): at every observe / observe_async call of a top-to-bottom run the
\* argument vector is as long as the parameter count of the kernel of the call.
C4_ShapeConsistent ==
  \A c \in calls : c.arglen = c.arity

Range(f) == {f[x] : x \in DOMAIN f}

\* C5: a job built from a row of batch i runs on device i; once a dispatch cell has
\* submitted everything, the devices used are exactly 0 .. len(xi)-1.
C5_DeviceTagging ==
  /\ \A id \in 1 .. Len(jobs) :
       jobs[id].cell \in DispatchCells =>
          /\ jobs[id].qpu \in 0 .. Len(xi) - 1
          /\ jobs[id].args \in Range(xi[jobs[id].qpu + 1])
          /\ \A b \in 0 .. Len(xi) - 1 :
               jobs[id].args \in Range(xi[b + 1]) => b = jobs[id].qpu
  /\ \A c \in DispatchCells :
       Len(SubmittedBy(c)) = TotalRows(xi) /\ TotalRows(xi) > 0 =>
          {r.qpu : r \in Range(SubmittedBy(c))} = 0 .. Len(xi) - 1

\* the first dispatch cell has submitted every row
C5_Witness ==
  cell = 4 /\ pc = "collect" /\ Len(SubmittedBy(4)) = Sections * BatchRows

\* C7: an exception of observe_async or get() leaves the cell where it is raised;
\* no row is submitted twice, no future is retrieved twice, and expvals holds no
\* value for the failed job or a later one.
C7_NoRetry ==
  /\ \A a, b \in 1 .. Len(jobs) :
       (a # b /\ jobs[a].cell = jobs[b].cell) =>
          <<jobs[a].batch, jobs[a].row>> # <<jobs[b].batch, jobs[b].row>>
  /\ \A a, b \in 1 .. Len(getLog) : a # b => getLog[a] # getLog[b]
  /\ status = "raised" => pc = "idle"
  /\ (status = "raised" /\ raisedAt = "get") =>
        /\ Len(expvals) = Len(getLog) - 1
        /\ \A k \in 1 .. Len(expvals) : expvals[k] = ExpectationZ(jobs[getLog[k]])
        /\ getLog = SubSeq(asyncresults, 1, Len(getLog))
  /\ (status = "raised" /\ raisedAt = "observe_async" /\ cell \in DispatchCells) =>
        /\ getLog = <<>>
        /\ Len(SubmittedBy(cell)) = Len(asyncresults)
        /\ Len(asyncresults) < TotalRows(xi)
        /\ \A k \in 1 .. Len(expvals) :
             \A r \in Range(SubmittedBy(cell)) : expvals[k] # ExpectationZ(r)

\* get() raised after some values had been collected
C7_Witness ==
  status = "raised" /\ raisedAt = "get" /\ cell = 7 /\ Len(expvals) >= 1

\* C8: once a cell has called get(), that cell has submitted all its jobs; nothing
\* is retrieved during the submission phase.
C8_SubmitThenCollect ==
  /\ pc = "submit" => getLog = <<>>
  /\ \A g \in Range(getLog) : Len(SubmittedBy(jobs[g].cell)) = TotalRows(xi)

\* a get() was made in the collect phase
C8_Witness ==
  pc = "collect" /\ Len(getLog) >= 1 /\ Len(getLog) < Len(asyncresults)

----------------------------------------------------------------------------
(* np.split on arbitrary parameter arrays: cell 3 run on any array of up   *)
(* to MaxRows rows (rows of one entry drawn from SplitValues).             *)

MaxRows == 8
SplitValues == {0, 1}

ArraysUpTo(n) == UNION {[1 .. m -> {<<v>> : v \in SplitValues}] : m \in 0 .. n}

InitSplit ==
  /\ cell = 3 /\ pc = "idle" /\ status = "ok" /\ raisedAt = "none"
  /\ target = "nvidia"
  /\ parameters \in ArraysUpTo(MaxRows)
  /\ n_samples = Rows(parameters) /\ n_parameters = 1 /\ n_qubits = 0
  /\ h = "z0" /\ hamiltonian = FALSE
  /\ kernel = NoKernel /\ kernel1 = NoKernel /\ kernel2 = NoKernel
  /\ exp_vals = <<>> /\ xi = <<>> /\ asyncresults = <<>> /\ expvals = <<>>
  /\ exp_vals1 = <<>> /\ exp_vals2 = <<>>
  /\ i = 0 /\ j = 0
  /\ rng = SeedState(GlobalSeed)
  /\ jobs = <<>> /\ acc_list = <<>> /\ pos = 0 /\ calls = {} /\ getLog = <<>>
  /\ gen = [c \in GenCells |-> {}]
  /\ LabFresh({0})
  /\ NoCall

NextSplit == RunCell3

SpecSplit == InitSplit /\ [][NextSplit]_vars

\* C1: whenever np.split(parameters, 4) succeeds (the row count is divisible by 4),
\* it yields 4 batches whose concatenation in batch order is the original array.
C1_SplitRoundTrip ==
  (cell = 4 /\ status = "ok") =>
     /\ Rows(parameters) % Sections = 0
     /\ Len(xi) = Sections
     /\ Concatenate(xi) = parameters

\* a split of 8 rows, not all alike, into batches of 2
C1_Witness ==
  /\ cell = 4 /\ status = "ok"
  /\ Rows(parameters) = 8
  /\ parameters[1] # parameters[2] /\ parameters[2] # parameters[3]
  /\ Rows(xi[1]) = 2

----------------------------------------------------------------------------
(* Lab2 - PennyLane and cuQuantum.ipynb: the variational classifier.       *)
(* Numbers are integers in units of one label step (labels are -1 and 1).  *)

\* bounds: the notebook's sizes, scaled down
\* rows of data/parity.txt
MaxData == 2
\* for i in range(5): print(X[i], Y[i])  -- 5 in the notebook
HeadRows == 1
\* for it in range(25)  -- 25 in the notebook
MaxIter == 2

\* qml.StronglyEntanglingLayers.shape(n_layers=2, n_wires=24)
BenchLayers == 2
BenchWires == 24
\* np.random.seed(0); num_qubits = 4; num_layers = 2; batch_size = 5
InitSeed == 0
num_qubits == 4
num_layers == 2
BatchSize == 5
\* abs(l - p) < 1e-5
TolInv == 100000

\* the values variational_classifier may return (circuit(weights, x) + bias)
Outputs == {-2, 0, 1}

cudaqVars == <<cell, pc, status, raisedAt, nsVars, jobs, acc_list, pos, calls, getLog>>

Abs(x) == IF x < 0 THEN -x ELSE x

\* np.sign
Sign(x) == IF x > 0 THEN 1 ELSE IF x < 0 THEN -1 ELSE 0

\* zip(a, b): pairs up to the shorter of the two
Zip(a, b) ==
  LET n == IF Len(a) <= Len(b) THEN Len(a) ELSE Len(b)
  IN  [k \in 1 .. n |-> <<a[k], b[k]>>]

\* the loop of square_loss: loss += (l - p) ** 2
RECURSIVE SumSquares(_)
SumSquares(z) ==
  IF z = <<>> THEN 0
  ELSE (Head(z)[1] - Head(z)[2]) * (Head(z)[1] - Head(z)[2]) + SumSquares(Tail(z))

\* def square_loss(labels, predictions): the quotient loss / len(labels), unreduced
square_loss(labels, preds) ==
  [num |-> SumSquares(Zip(labels, preds)), den |-> Len(labels)]

\* a comparison without abs(): l - p < 1e-5
AgreeNoAbs(l, p) == (l - p) * TolInv < 1

\* abs(l - p) < 1e-5
Agree(l, p) == Abs(l - p) * TolInv < 1

\* the loop of accuracy: if abs(l - p) < 1e-5: loss += 1
RECURSIVE CountAgree(_)
CountAgree(z) ==
  IF z = <<>> THEN 0
  ELSE (IF Agree(Head(z)[1], Head(z)[2]) THEN 1 ELSE 0) + CountAgree(Tail(z))

\* def accuracy(labels, predictions): the quotient loss / len(labels), unreduced
accuracy(labels, preds) ==
  [num |-> CountAgree(Zip(labels, preds)), den |-> Len(labels)]

\* loss /= len(labels) raises ZeroDivisionError for no labels
DivisionRaises(labels) == Len(labels) = 0

\* the labels read from the file: the last column of data
FileLabels == {0, 1}

\* a shift without the doubling: Y - np.ones(len(Y))
LabelShiftNoScale(y) == y - 1

\* Y * 2 - np.ones(len(Y))
LabelShift(y) == y * 2 - 1

\* np.random.randn(...) / random(size=...): n draws of the global generator in state s
Randn(s, n) == [k \in 1 .. n |-> Draw(s, k)]

LabAt(c) == lab_cell = c /\ lab_pc = "idle" /\ lab_status = "ok"

LabAdvance(c) ==
  /\ lab_cell' = IF lab_status' = "ok" THEN c + 1 ELSE c
  /\ lab_pc' = "idle"

\* the code cells with an effect on the names modelled here
LabCells == {4, 15, 16, 17, 18, 19}
LabLastCell == 19

\* imports, devices, function definitions, the benchmark cells
LabOther ==
  /\ lab_cell \notin LabCells /\ lab_cell <= LabLastCell
  /\ lab_pc = "idle" /\ lab_status = "ok"
  /\ lab_cell' = lab_cell + 1
  /\ UNCHANGED <<lab_pc, lab_status, lab_rng, weights, X, Y, weights_init, bias_init,
                 bias, batch_size, batch_index, predictions, acc, data, it, cost,
                 outputs, gen>>
  /\ UNCHANGED cudaqVars
  /\ UNCHANGED callVars

\* code cell 4: weights = qml.numpy.random.random(size=shape)
LabCell4Body ==
  /\ weights' = Randn(lab_rng, BenchLayers * BenchWires * 3)
  /\ lab_rng' = RngAdvance(lab_rng, BenchLayers * BenchWires * 3)
  /\ lab_status' = "ok"
  /\ UNCHANGED <<X, Y, weights_init, bias_init, bias, batch_size, batch_index,
                 predictions, acc, data, it, cost, outputs, gen>>
  /\ UNCHANGED cudaqVars
  /\ UNCHANGED callVars

\* code cell 15: data = np.loadtxt("data/parity.txt"); X; Y; Y = Y * 2 - 1; print loop
LabCell15Body ==
  /\ \E n \in 0 .. MaxData :
       \E labels \in [1 .. n -> FileLabels] :
          IF n = 0
          THEN /\ data' = <<>> /\ lab_status' = "raised"
               /\ UNCHANGED <<X, Y>>
          ELSE /\ data' = [k \in 1 .. n |-> <<k, labels[k]>>]
               /\ X' = [k \in 1 .. n |-> k]
               /\ Y' = [k \in 1 .. n |-> LabelShift(labels[k])]
               /\ lab_status' = IF n < HeadRows THEN "raised" ELSE "ok"
  /\ UNCHANGED <<lab_rng, weights, weights_init, bias_init, bias, batch_size,
                 batch_index, predictions, acc, it, cost, outputs, gen>>
  /\ UNCHANGED cudaqVars
  /\ UNCHANGED callVars

\* code cell 16: np.random.seed(0); weights_init = 0.01 * np.random.randn(2, 4, 3)
LabCell16Body ==
  /\ weights_init' = Randn(SeedState(InitSeed), num_layers * num_qubits * 3)
  /\ lab_rng' = RngAdvance(SeedState(InitSeed), num_layers * num_qubits * 3)
  /\ bias_init' = 0
  /\ lab_status' = "ok"
  /\ gen' = [gen EXCEPT ![16] = @ \cup {<<lab_rng, weights_init'>>}]
  /\ UNCHANGED <<weights, X, Y, bias, batch_size, batch_index, predictions, acc,
                 data, it, cost, outputs>>
  /\ UNCHANGED cudaqVars
  /\ UNCHANGED callVars

\* code cell 17: opt = NesterovMomentumOptimizer(0.5); batch_size = 5
LabCell17Body ==
  /\ batch_size' = BatchSize
  /\ lab_status' = "ok"
  /\ UNCHANGED <<lab_rng, weights, X, Y, weights_init, bias_init, bias, batch_index,
                 predictions, acc, data, it, cost, outputs, gen>>
  /\ UNCHANGED cudaqVars
  /\ UNCHANGED callVars

\* code cell 18: weights, bias = weights_init, bias_init; data = []
TrainStart ==
  /\ LabAt(18)
  /\ weights' = [init |-> weights_init, steps |-> 0]
  /\ bias' = bias_init
  /\ data' = <<>>
  /\ it' = 0
  /\ lab_pc' = "train"
  /\ UNCHANGED <<lab_cell, lab_status, lab_rng, X, Y, weights_init, bias_init,
                 batch_size, batch_index, predictions, acc, cost, outputs, gen>>
  /\ UNCHANGED cudaqVars
  /\ UNCHANGED callVars

\* one pass of "for it in range(25)": a batch is drawn, opt.step moves the weights
\* (so the classifier's outputs change), the predictions are the signs of the
\* outputs, and (it+1, cost, acc) is appended to data
TrainIter ==
  /\ lab_pc = "train" /\ it < MaxIter
  /\ IF Len(X) = 0
     THEN /\ lab_status' = "raised" /\ lab_pc' = "idle"
          /\ UNCHANGED <<lab_rng, weights, bias, batch_index, predictions, acc, data,
                         it, outputs>>
     ELSE /\ batch_index' = [k \in 1 .. batch_size |-> Draw(lab_rng, k) % Len(X)]
          /\ lab_rng' = RngAdvance(lab_rng, batch_size)
          /\ weights' = [weights EXCEPT !.steps = @ + 1]
          /\ bias' = bias
          /\ \E outs \in [1 .. Len(X) -> Outputs] : outputs' = outs
          /\ predictions' = [k \in 1 .. Len(X) |-> Sign(outputs'[k])]
          /\ IF DivisionRaises(Y)
             THEN /\ lab_status' = "raised" /\ lab_pc' = "idle"
                  /\ UNCHANGED <<acc, data, it>>
             ELSE /\ acc' = accuracy(Y, predictions')
                  /\ data' = Append(data, <<it + 1, square_loss(Y, outputs'), acc'>>)
                  /\ it' = it + 1
                  /\ UNCHANGED <<lab_status, lab_pc>>
  /\ UNCHANGED <<lab_cell, X, Y, weights_init, bias_init, batch_size, cost, gen>>
  /\ UNCHANGED cudaqVars
  /\ UNCHANGED callVars

\* the loop is exhausted
TrainDone ==
  /\ lab_pc = "train" /\ it = MaxIter
  /\ lab_pc' = "idle"
  /\ lab_cell' = lab_cell + 1
  /\ UNCHANGED <<lab_status, lab_rng, weights, X, Y, weights_init, bias_init, bias,
                 batch_size, batch_index, predictions, acc, data, it, cost, outputs,
                 gen>>
  /\ UNCHANGED cudaqVars
  /\ UNCHANGED callVars

\* code cell 19: it, cost, acc = zip(*data); the plot
LabCell19Body ==
  /\ IF data = <<>>
     THEN lab_status' = "raised" /\ UNCHANGED <<it, cost, acc>>
     ELSE /\ lab_status' = "ok"
          /\ it' = [k \in 1 .. Len(data) |-> data[k][1]]
          /\ cost' = [k \in 1 .. Len(data) |-> data[k][2]]
          /\ acc' = [k \in 1 .. Len(data) |-> data[k][3]]
  /\ UNCHANGED <<lab_rng, weights, X, Y, weights_init, bias_init, bias, batch_size,
                 batch_index, predictions, data, outputs, gen>>
  /\ UNCHANGED cudaqVars
  /\ UNCHANGED callVars

LabRunCell4 == LabAt(4) /\ LabCell4Body /\ LabAdvance(4)
LabRunCell15 == LabAt(15) /\ LabCell15Body /\ LabAdvance(15)
LabRunCell16 == LabAt(16) /\ LabCell16Body /\ LabAdvance(16)
LabRunCell17 == LabAt(17) /\ LabCell17Body /\ LabAdvance(17)
LabRunCell19 == LabAt(19) /\ LabCell19Body /\ LabAdvance(19)

\* the Lab2 notebook is opened and run; cudaq_tutorial_04.ipynb is not.
\* The state the generator starts in does not reach the training loop (code
\* cell 16 seeds it); SpecRerun explores every starting state.
InitLab ==
  /\ CudaqFresh({0})
  /\ LabFresh({0})
  /\ NoCall
  /\ gen = [c \in GenCells |-> {}]

NextLab ==
  \/ LabOther \/ LabRunCell4 \/ LabRunCell15 \/ LabRunCell16 \/ LabRunCell17
  \/ TrainStart \/ TrainIter \/ TrainDone \/ LabRunCell19

\* a top-to-bottom run of the Lab2 notebook
SpecLab == InitLab /\ [][NextLab]_vars

----------------------------------------------------------------------------
(* Re-running cells out of order: the generating cells of both notebooks   *)
(* are run again and again, in any order, from any state of the global     *)
(* generators; code cell 4 of the Lab2 notebook draws from the global      *)
(* generator in between.                                                   *)

Rerun2 == Cell2Body /\ UNCHANGED <<cell, pc>>
Rerun5 == Cell5Body /\ UNCHANGED <<cell, pc>>
Rerun6 == Cell6Body /\ UNCHANGED <<cell, pc>>
LabRerun4 == LabCell4Body /\ UNCHANGED <<lab_cell, lab_pc>>
LabRerun16 == LabCell16Body /\ UNCHANGED <<lab_cell, lab_pc>>

\* The two notebooks run in separate kernels that share no state; their global
\* generators start in one arbitrary state, which loses no run of either notebook.
InitRerun ==
  /\ CudaqFresh(RngStates)
  /\ LabFresh({rng})
  /\ NoCall
  /\ gen = [c \in GenCells |-> {}]

NextRerun == Rerun2 \/ Rerun5 \/ Rerun6 \/ LabRerun4 \/ LabRerun16

SpecRerun == InitRerun /\ [][NextRerun]_vars

\* C6: seed determinism. Every run of a generating cell that fixes its seed
\* (cells 2, 5, 6 of cudaq_tutorial_04.ipynb: parameters; code cell 16 of Lab2:
\* weights_init) yields the same values as every other run of that cell, whatever
\* state the global generator was in when the cell started and whatever cells ran
\* in between.
C6_SeedDeterminism ==
  \A c \in GenCells : \A a \in gen[c] : \A b \in gen[c] : a[2] = b[2]

\* cell 2 and code cell 16 have each run from two different generator states
C6_Witness ==
  /\ \E a \in gen[2] : \E b \in gen[2] : a[1] # b[1]
  /\ \E a \in gen[16] : \E b \in gen[16] : a[1] # b[1]

----------------------------------------------------------------------------
(* Properties of the training loop (SpecLab).                              *)

\* acc holds the value accuracy(Y, predictions) returned in the latest pass of
\* the loop (before the plot cell rebinds acc)
AccDefined ==
  /\ lab_status = "ok"
  /\ \/ lab_pc = "train" /\ it > 0
     \/ lab_pc = "idle" /\ lab_cell = 19

\* the number of positions where label and prediction are equal
Matches(labels, preds) ==
  Cardinality({k \in 1 .. Len(labels) : labels[k] = preds[k]})

\* C9: in the training loop every prediction, the sign of the classifier's
\* output, is a member of {-1, 1}, whatever the output (an output of exactly 0
\* included).
C9_PredictionsInPlusMinusOne ==
  \A k \in DOMAIN predictions : predictions[k] \in {-1, 1}

----------------------------------------------------------------------------
(* square_loss called on its own, on any two lists.                        *)

\* the longest list handed to square_loss
MaxLen == 3

\* labels after the shift; predictions are classifier outputs or label values
LabelValues == {-1, 1}
PredictionValues == Outputs \cup LabelValues

ListsUpTo(n, S) == UNION {[1 .. m -> S] : m \in 0 .. n}

\* def square_loss(labels, predictions), called: the loop runs over the zipped
\* pairs, then loss /= len(labels) raises ZeroDivisionError for no labels
SquareLossCall ==
  /\ loss.state = "none"
  /\ loss' = IF DivisionRaises(arg_labels)
             THEN [state |-> "ZeroDivisionError", num |-> 0, den |-> 0]
             ELSE [state |-> "returned",
                   num |-> square_loss(arg_labels, arg_predictions).num,
                   den |-> square_loss(arg_labels, arg_predictions).den]
  /\ UNCHANGED <<arg_labels, arg_predictions>>
  /\ UNCHANGED <<lab_cell, lab_pc, lab_status, lab_rng, weights, X, Y, weights_init,
                 bias_init, bias, batch_size, batch_index, predictions, acc, data, it,
                 cost, outputs, gen>>
  /\ UNCHANGED cudaqVars

InitLoss ==
  /\ CudaqFresh({0})
  /\ LabFresh({0})
  /\ gen = [c \in GenCells |-> {}]
  /\ arg_labels \in ListsUpTo(MaxLen, LabelValues)
  /\ arg_predictions \in ListsUpTo(MaxLen, PredictionValues)
  /\ loss = NotCalled

NextLoss == SquareLossCall

SpecLoss == InitLoss /\ [][NextLoss]_vars

\* the pairs of the two lists: as many as the shorter list has entries
PairCount(a, b) == IF Len(a) <= Len(b) THEN Len(a) ELSE Len(b)

\* the sum of (a[k] - b[k])^2 over the first n pairs
RECURSIVE SquareSum(_, _, _)
SquareSum(a, b, n) ==
  IF n = 0 THEN 0
  ELSE SquareSum(a, b, n - 1) + (a[n] - b[n]) * (a[n] - b[n])

\* C11: square_loss(labels, predictions) is the standard square loss, for every
\* pair of lists (of different lengths too): the call returns the sum over the
\* label/prediction pairs of (label - prediction)^2 divided by the number of
\* labels, which is never negative and is 0 exactly when every prediction equals
\* its label.
C11_SquareLossStandard ==
  loss.state # "none" =>
    /\ loss.state = "returned"
    /\ loss.den = Len(arg_labels)
    /\ loss.num = SquareSum(arg_labels, arg_predictions,
                            PairCount(arg_labels, arg_predictions))
    /\ loss.num >= 0
    /\ (loss.num = 0) <=>
         (\A k \in 1 .. PairCount(arg_labels, arg_predictions) :
            arg_predictions[k] = arg_labels[k])

----------------------------------------------------------------------------
(* The data-loading cell (SpecLab).                                        *)

\* data still holds the rows of the file (the training cell rebinds it)
DataLoaded ==
  /\ Y # <<>>
  /\ lab_pc = "idle"
  /\ lab_cell \in {15, 16, 17} \/ (lab_cell = 18 /\ lab_status = "ok")

\* C12: label shift. Y = Y * 2 - 1 maps label 0 to -1 and label 1 to 1: after
\* the data-loading cell every element of Y is -1 or 1, it is the image of the
\* label of its row, and the mapping is one-to-one.
C12_LabelShift ==
  /\ \A k \in DOMAIN Y : Y[k] \in {-1, 1}
  /\ DataLoaded =>
       /\ Len(Y) = Len(data)
       /\ \A k \in DOMAIN Y : /\ data[k][2] = 0 => Y[k] = -1
                              /\ data[k][2] = 1 => Y[k] = 1
       /\ \A k \in DOMAIN Y : \A m \in DOMAIN Y :
            Y[k] = Y[m] => data[k][2] = data[m][2]
  /\ \A a \in FileLabels : \A b \in FileLabels :
       LabelShift(a) = LabelShift(b) => a = b

\* the data cell has loaded a file holding both labels
C12_Witness ==
  /\ DataLoaded /\ lab_cell = 16
  /\ \E k \in DOMAIN Y : data[k][2] = 0 /\ Y[k] = -1
  /\ \E k \in DOMAIN Y : data[k][2] = 1 /\ Y[k] = 1

----------------------------------------------------------------------------
(* The top-to-bottom run of cudaq_tutorial_04.ipynb, kept going: Run All    *)
(* executes the next statement as long as there is one, and a device        *)
(* finishes every job it was given.                                         *)

SpecFair == Init /\ [][Next]_vars /\ WF_vars(Next)

\* the observe_async calls of a run: two dispatch cells, the two lists of cell 8
MaxJobs == 2 * Sections * BatchRows + 2 * SmallSamples

\* the calls whose exception cuts a run short before its futures are read
AsyncCalls == {"observe", "observe_async", "get"}

\* future id is blocked on by the cell now collecting (or the last one that
\* did): res.get() was called on it
Retrieved(id) == id \in Range(getLog)

\* C13: every future returned by an observe_async call of a top-to-bottom run
\* (the submissions of kernel1 to qpu_id 0 and of kernel2 to qpu_id 1 included)
\* is later blocked on by get(), unless an exception of an asynchronous call
\* ended the run first.
C13_EveryFutureRetrieved ==
  \A id \in 1 .. MaxJobs :
    <>(Len(jobs) >= id) => <>(Retrieved(id) \/ raisedAt \in AsyncCalls)

====
